---------------------------- MODULE Spec2Model ----------------------------
(***************************************************************************)
(* Model of the terminal runner game of src/main.cpp (namespace            *)
(* RunButLikeActually, class Game, lines 17-368): the tick loop of         *)
(* Game::Run, the input thread started by Game::StartInputThread, and the  *)
(* two atomic flags they share.                                            *)
(*                                                                         *)
(* Two threads are modelled.  The tick thread walks through Run one call   *)
(* at a time (pc); UpdatePlayerPosition is cut at its two accesses to the  *)
(* atomic isJumping (the load of line 241 and the store of line 252), the  *)
(* only place where a function of the loop touches a shared flag twice.    *)
(* The input thread alternates between the load of isGameRunning in its    *)
(* while condition (line 163) and the key handling (lines 165-177).        *)
(*                                                                         *)
(* Geometry: the source's grid is 32 x 80 with the player in column 20.    *)
(* The grid is scaled down here (see GAME_TILE_ROWS, GAME_PLAYER_POSITION  *)
(* and ViewAhead): the rows are enough for the floor, a jump of full       *)
(* height and a free row above it, the columns ahead of the player enough  *)
(* to see an obstacle PLAYER_JUMP_STEPS ticks before it arrives.  Every    *)
(* other constant has the value the source gives it.                       *)
(***************************************************************************)
EXTENDS Integers, Sequences, FiniteSets, TLC

(***************************************************************************)
(* Constants of src/main.cpp, lines 29-45.                                 *)
(***************************************************************************)
\* Scaled: 32 in the source.
GAME_TILE_ROWS == 8

\* Scaled: 20 in the source.  The number of columns behind the player.
GAME_PLAYER_POSITION == 1

\* Scaled: the number of columns ahead of the player (59 in the source).
ViewAhead == 5

\* 80 in the source; here the player's column, the columns behind it and
\* the columns ahead of it.
GAME_TILE_COLS == GAME_PLAYER_POSITION + ViewAhead + 1

PLAYER_JUMP_DISTANCE == 11

PLAYER_JUMP_HEIGHT == 5

\* Intentional integer division (line 37).
PLAYER_JUMP_STEPS == PLAYER_JUMP_DISTANCE \div 2

\* (float)PLAYER_JUMP_HEIGHT / PLAYER_JUMP_STEPS (line 38).  With the
\* source's constants the quotient is 5/5, exactly 1.0f, and every value
\* playerYPos takes is a small integer, which a float holds exactly.
PLAYER_JUMP_STEP_SIZE == PLAYER_JUMP_HEIGHT \div PLAYER_JUMP_STEPS

MIN_OBSTACLE_HEIGHT == 1

MAX_OBSTACLE_HEIGHT == PLAYER_JUMP_HEIGHT - 1

MIN_OBSTACLE_GAP == 11

MAX_OBSTACLE_GAP == 80

OBSTACLE_CREATION_CHANCE == 25

\* <climits>: the initial value of lastObstacleDist (line 147).
INT_MAX == 2147483647

\* The largest value rand() returns in the model (RAND_MAX of <stdlib.h> is
\* at least 32767; every residue modulo 101 and modulo 5 occurs below 200).
RandMax == 200

\* The score at which the model stops starting further ticks.
MaxScore == 2

Rows == 0 .. (GAME_TILE_ROWS - 1)

Cols == 0 .. (GAME_TILE_COLS - 1)

\* enum class Tile (lines 133-143).
Tile == {"Empty", "Wall", "Obstacle", "PlayerHead", "PlayerAscending",
         "PlayerDescending", "PlayerForward", "PlayerJumpTop"}

PlayerTiles == {"PlayerHead", "PlayerAscending", "PlayerDescending",
                "PlayerForward", "PlayerJumpTop"}

VARIABLES
    tiles,              \* array<array<Tile, COLS>, ROWS> tiles      (line 148)
    score,              \* int score                                 (line 145)
    lastObstacleDist,   \* int lastObstacleDist                      (line 147)
    playerYPos,         \* float playerYPos                          (line 150)
    prevStepCount,      \* int prevStepCount                         (line 151)
    jumpStepCount,      \* int jumpStepCount                         (line 152)
    direction,          \* int direction                             (line 153)
    isGameRunning,      \* atomic<bool> isGameRunning                (line 156)
    isJumping,          \* atomic<bool> isJumping                    (line 157)
    isPlayerColliding,  \* bool isPlayerColliding                    (line 158)
    pc,                 \* the tick thread's position in Run
    inputPc,            \* the input thread's position in its lambda
    frames,             \* history: renders since the collision flag was last set
    arc,                \* history: playerYPos after each tick of the current/last jump
    pressedInJump,      \* history: SPACE was handled while isJumping was already true
    passed,             \* history: obstacles scrolled out of the player's ground cell
    quit,               \* history: the input thread has handled ESC
    secondRun           \* a further call of Run made while the loop runs

vars == <<tiles, score, lastObstacleDist, playerYPos, prevStepCount,
          jumpStepCount, direction, isGameRunning, isJumping,
          isPlayerColliding, pc, inputPc, frames, arc, pressedInJump,
          passed, quit, secondRun>>

gameVars == <<tiles, score, lastObstacleDist, playerYPos, prevStepCount,
              jumpStepCount, direction, isPlayerColliding>>

histVars == <<frames, arc, pressedInJump, passed, quit, secondRun>>

(***************************************************************************)
(* Pure functions.                                                         *)
(***************************************************************************)

\* RandRange as it would be if max were an inclusive upper end.
RandRange_Inclusive(min, max) == { (r % (max + 1)) + min : r \in 0 .. RandMax }

\* int RandRange(int min, int max) { return rand() % max + min; }
\* The set of values one call can return.
RandRange(min, max) == { (r % max) + min : r \in 0 .. RandMax }

\* GetTrailingPlayerTile as it would be if the apex were counted as part of
\* the ascent.
GetTrailingPlayerTile_NoTop(prev, cur) ==
    IF prev = 0 /\ cur = 0 THEN "PlayerForward"
    ELSE IF prev <= PLAYER_JUMP_STEPS THEN "PlayerAscending"
    ELSE "PlayerDescending"

\* Tile Game::GetTrailingPlayerTile(), as a function of the two step counts.
GetTrailingPlayerTile(prev, cur) ==
    IF prev = 0 /\ cur = 0 THEN "PlayerForward"
    ELSE IF prev < PLAYER_JUMP_STEPS THEN "PlayerAscending"
    ELSE IF prev = PLAYER_JUMP_STEPS THEN "PlayerJumpTop"
    ELSE "PlayerDescending"

\* The scroll as it would be without the trailing tile: every cell is copied
\* from the cell ahead of it.
Scrolled_NoTrail(t, prev, cur) ==
    [i \in Rows |->
        IF i < GAME_TILE_ROWS - 1
        THEN [j \in Cols |->
                IF j < GAME_TILE_COLS - 1 THEN t[i][j + 1] ELSE "Empty"]
        ELSE t[i]]

\* The two nested loops of UpdateTilesAndCheckForCollisions (lines 214-230):
\* rows 0 .. R-2 move one column to the left, a PlayerHead ahead is copied as
\* the trailing tile, the last column becomes Empty; row R-1 is not touched.
\* Each cell j is written from cell j+1 before cell j+1 is written, so the
\* in-place loop is a simultaneous shift.
Scrolled(t, prev, cur) ==
    [i \in Rows |->
        IF i < GAME_TILE_ROWS - 1
        THEN [j \in Cols |->
                IF j < GAME_TILE_COLS - 1
                THEN IF t[i][j + 1] = "PlayerHead"
                     THEN GetTrailingPlayerTile(prev, cur)
                     ELSE t[i][j + 1]
                ELSE "Empty"]
        ELSE t[i]]

\* The row of the player's head (lines 232-233): GAME_TILE_ROWS - 2 -
\* (int)playerYPos.  playerYPos is a whole number (see PLAYER_JUMP_STEP_SIZE),
\* so the cast drops nothing.
HeadRow(y) == GAME_TILE_ROWS - 2 - y

\* The row indices the loop of UpdateObstacles (lines 276-279) writes for a
\* drawn height: i = R-1 down to R-1-height.
SpawnRows(height) == (GAME_TILE_ROWS - 1 - height) .. (GAME_TILE_ROWS - 1)

\* The loop of UpdateObstacles (lines 276-279): rows R-1 down to R-1-height
\* of the last column become Obstacle.
WithObstacle(t, height) ==
    [i \in Rows |->
        IF i \in SpawnRows(height)
        THEN [t[i] EXCEPT ![GAME_TILE_COLS - 1] = "Obstacle"]
        ELSE t[i]]

(***************************************************************************)
(* Game::Game() and the member initialisers (lines 86-93, 145-158).        *)
(***************************************************************************)
Init ==
    /\ tiles = [i \in Rows |-> [j \in Cols |->
                  IF i = GAME_TILE_ROWS - 1 THEN "Wall"
                  ELSE IF i = GAME_TILE_ROWS - 2 /\ j = GAME_PLAYER_POSITION
                       THEN "PlayerHead"
                       ELSE "Empty"]]
    /\ score = 0
    /\ lastObstacleDist = INT_MAX
    /\ playerYPos = 0
    /\ prevStepCount = 0
    /\ jumpStepCount = 0
    /\ direction = 0
    /\ isGameRunning = FALSE
    /\ isJumping = FALSE
    /\ isPlayerColliding = FALSE
    /\ pc = "Run"
    /\ inputPc = "NotStarted"
    /\ frames = 0
    /\ arc = <<>>
    /\ pressedInJump = FALSE
    /\ passed = 0
    /\ quit = FALSE
    /\ secondRun = "NotCalled"

(***************************************************************************)
(* The tick thread: Game::Run.                                             *)
(***************************************************************************)

\* Lines 97-104: the guard against a second Run, the flag, StartInputThread.
RunStart ==
    /\ pc = "Run"
    /\ ~isGameRunning
    /\ isGameRunning' = TRUE
    /\ inputPc' = "While"
    /\ pc' = "While"
    /\ UNCHANGED <<gameVars, isJumping, histVars>>

\* LoopTest as it would be if the loop did not test the running flag.
LoopTest_IgnoreFlag ==
    /\ pc = "While"
    /\ score < MaxScore \/ isPlayerColliding
    /\ pc' = "Print"
    /\ UNCHANGED <<gameVars, isGameRunning, isJumping, inputPc, histVars>>

\* LoopTest as it would be if the loop left as soon as a collision is latched.
LoopTest_StopAtOnce ==
    /\ pc = "While"
    /\ IF isGameRunning /\ ~isPlayerColliding
       THEN /\ score < MaxScore
            /\ pc' = "Print"
       ELSE pc' = "Stop"
    /\ UNCHANGED <<gameVars, isGameRunning, isJumping, inputPc, histVars>>

\* Line 106: while (isGameRunning).  The model starts no further tick once
\* the score has reached MaxScore, except the tick that renders a collision
\* and stops.
LoopTest ==
    /\ pc = "While"
    /\ IF isGameRunning
       THEN /\ score < MaxScore \/ isPlayerColliding
            /\ pc' = "Print"
       ELSE pc' = "Stop"
    /\ UNCHANGED <<gameVars, isGameRunning, isJumping, inputPc, histVars>>

\* Line 111: PrintGameState().  The console is not modelled; the render is
\* counted against the latched collision flag.
PrintGameState ==
    /\ pc = "Print"
    /\ frames' = IF isPlayerColliding THEN frames + 1 ELSE frames
    /\ pc' = "Check"
    /\ UNCHANGED <<gameVars, isGameRunning, isJumping, inputPc, arc,
                   pressedInJump, passed, quit, secondRun>>

\* The collision check as it would be if UpdateScore ran before it.
CollisionCheck_ScoreFirst ==
    /\ pc = "Check"
    /\ score' = score + (IF tiles[GAME_TILE_ROWS - 2][GAME_PLAYER_POSITION] = "Obstacle"
                         THEN 1 ELSE 0)
    /\ IF isPlayerColliding
       THEN /\ isGameRunning' = FALSE
            /\ pc' = "Stop"
       ELSE /\ pc' = "Player"
            /\ UNCHANGED isGameRunning
    /\ UNCHANGED <<tiles, lastObstacleDist, playerYPos, prevStepCount,
                   jumpStepCount, direction, isPlayerColliding, isJumping,
                   inputPc, histVars>>

\* The collision check as it would be without the break: the flag is
\* cleared and the tick goes on.
CollisionCheck_NoBreak ==
    /\ pc = "Check"
    /\ isGameRunning' = IF isPlayerColliding THEN FALSE ELSE isGameRunning
    /\ pc' = "Score"
    /\ UNCHANGED <<gameVars, isJumping, inputPc, histVars>>

\* Lines 113-117: if (isPlayerColliding) { isGameRunning = false; break; }
CollisionCheck ==
    /\ pc = "Check"
    /\ IF isPlayerColliding
       THEN /\ isGameRunning' = FALSE
            /\ pc' = "Stop"
       ELSE /\ pc' = "Score"
            /\ UNCHANGED isGameRunning
    /\ UNCHANGED <<gameVars, isJumping, inputPc, histVars>>

\* UpdateScore as it would be if it looked at the cell behind the player.
UpdateScore_CellBehind ==
    /\ pc = "Score"
    /\ score' = score + (IF tiles[GAME_TILE_ROWS - 2][GAME_PLAYER_POSITION - 1] = "Obstacle"
                         THEN 1 ELSE 0)
    /\ pc' = "Player"
    /\ UNCHANGED <<tiles, lastObstacleDist, playerYPos, prevStepCount,
                   jumpStepCount, direction, isPlayerColliding,
                   isGameRunning, isJumping, inputPc, histVars>>

\* Lines 256-261.
UpdateScore ==
    /\ pc = "Score"
    /\ score' = score + (IF tiles[GAME_TILE_ROWS - 2][GAME_PLAYER_POSITION] = "Obstacle"
                         THEN 1 ELSE 0)
    /\ pc' = "Player"
    /\ UNCHANGED <<tiles, lastObstacleDist, playerYPos, prevStepCount,
                   jumpStepCount, direction, isPlayerColliding,
                   isGameRunning, isJumping, inputPc, histVars>>

\* UpdatePlayerPosition as it would be if the jump ended one tick later
\* (jumpStepCount == PLAYER_JUMP_DISTANCE).
UpdatePlayerPosition_OneMore ==
    /\ pc = "Player"
    /\ prevStepCount' = jumpStepCount
    /\ IF ~isJumping
       THEN /\ pc' = "Tiles"
            /\ UNCHANGED <<direction, playerYPos, jumpStepCount, arc, pressedInJump>>
       ELSE LET dir == IF jumpStepCount < PLAYER_JUMP_STEPS THEN 1 ELSE -1
                y   == playerYPos + PLAYER_JUMP_STEP_SIZE * dir
                n   == jumpStepCount + 1
            IN  /\ direction' = dir
                /\ playerYPos' = y
                /\ arc' = IF jumpStepCount = 0 THEN <<y>> ELSE Append(arc, y)
                /\ pressedInJump' = IF jumpStepCount = 0 THEN FALSE ELSE pressedInJump
                /\ IF n = PLAYER_JUMP_DISTANCE
                   THEN /\ jumpStepCount' = 0
                        /\ pc' = "ClearJumping"
                   ELSE /\ jumpStepCount' = n
                        /\ pc' = "Tiles"
    /\ UNCHANGED <<tiles, score, lastObstacleDist, isPlayerColliding,
                   isGameRunning, isJumping, inputPc, frames, passed, quit,
                   secondRun>>

\* UpdatePlayerPosition as it would be with the turn of the arc one step late
\* (jumpStepCount <= PLAYER_JUMP_STEPS).
UpdatePlayerPosition_LateTurn ==
    /\ pc = "Player"
    /\ prevStepCount' = jumpStepCount
    /\ IF ~isJumping
       THEN /\ pc' = "Tiles"
            /\ UNCHANGED <<direction, playerYPos, jumpStepCount, arc, pressedInJump>>
       ELSE LET dir == IF jumpStepCount <= PLAYER_JUMP_STEPS THEN 1 ELSE -1
                y   == playerYPos + PLAYER_JUMP_STEP_SIZE * dir
                n   == jumpStepCount + 1
            IN  /\ direction' = dir
                /\ playerYPos' = y
                /\ arc' = IF jumpStepCount = 0 THEN <<y>> ELSE Append(arc, y)
                /\ pressedInJump' = IF jumpStepCount = 0 THEN FALSE ELSE pressedInJump
                /\ IF n = PLAYER_JUMP_DISTANCE - 1
                   THEN /\ jumpStepCount' = 0
                        /\ pc' = "ClearJumping"
                   ELSE /\ jumpStepCount' = n
                        /\ pc' = "Tiles"
    /\ UNCHANGED <<tiles, score, lastObstacleDist, isPlayerColliding,
                   isGameRunning, isJumping, inputPc, frames, passed, quit,
                   secondRun>>

\* Lines 239-251: UpdatePlayerPosition up to and including the reset of
\* jumpStepCount.  The store isJumping = false of line 252 is ClearJumping.
UpdatePlayerPosition ==
    /\ pc = "Player"
    /\ prevStepCount' = jumpStepCount
    /\ IF ~isJumping
       THEN /\ pc' = "Tiles"
            /\ UNCHANGED <<direction, playerYPos, jumpStepCount, arc, pressedInJump>>
       ELSE LET dir == IF jumpStepCount < PLAYER_JUMP_STEPS THEN 1 ELSE -1
                y   == playerYPos + PLAYER_JUMP_STEP_SIZE * dir
                n   == jumpStepCount + 1
            IN  /\ direction' = dir
                /\ playerYPos' = y
                /\ arc' = IF jumpStepCount = 0 THEN <<y>> ELSE Append(arc, y)
                /\ pressedInJump' = IF jumpStepCount = 0 THEN FALSE ELSE pressedInJump
                /\ IF n = PLAYER_JUMP_DISTANCE - 1
                   THEN /\ jumpStepCount' = 0
                        /\ pc' = "ClearJumping"
                   ELSE /\ jumpStepCount' = n
                        /\ pc' = "Tiles"
    /\ UNCHANGED <<tiles, score, lastObstacleDist, isPlayerColliding,
                   isGameRunning, isJumping, inputPc, frames, passed, quit,
                   secondRun>>

\* ClearJumping as it would be if the store were missing.
ClearJumping_Keep ==
    /\ pc = "ClearJumping"
    /\ isJumping' = isJumping
    /\ pc' = "Tiles"
    /\ UNCHANGED <<gameVars, isGameRunning, inputPc, histVars>>

\* Line 252: isJumping = false.
ClearJumping ==
    /\ pc = "ClearJumping"
    /\ isJumping' = FALSE
    /\ pc' = "Tiles"
    /\ UNCHANGED <<gameVars, isGameRunning, inputPc, histVars>>

\* UpdateTilesAndCheckForCollisions as it would be if the destination cell
\* were read from the grid before the scroll.
UpdateTilesAndCheckForCollisions_Unscrolled ==
    /\ pc = "Tiles"
    /\ LET s        == Scrolled(tiles, prevStepCount, jumpStepCount)
           row      == HeadRow(playerYPos)
           destTile == tiles[row][GAME_PLAYER_POSITION]
       IN  /\ tiles' = [s EXCEPT ![row][GAME_PLAYER_POSITION] = "PlayerHead"]
           /\ isPlayerColliding' = (destTile = "Obstacle")
           /\ frames' = IF destTile = "Obstacle" THEN 0 ELSE frames
    /\ passed' = passed + (IF tiles[GAME_TILE_ROWS - 2][GAME_PLAYER_POSITION] = "Obstacle"
                           THEN 1 ELSE 0)
    /\ pc' = "Obstacles"
    /\ UNCHANGED <<score, lastObstacleDist, playerYPos, prevStepCount,
                   jumpStepCount, direction, isGameRunning, isJumping,
                   inputPc, arc, pressedInJump, quit, secondRun>>

\* Lines 211-235.
UpdateTilesAndCheckForCollisions ==
    /\ pc = "Tiles"
    /\ LET s        == Scrolled(tiles, prevStepCount, jumpStepCount)
           row      == HeadRow(playerYPos)
           destTile == s[row][GAME_PLAYER_POSITION]
       IN  /\ tiles' = [s EXCEPT ![row][GAME_PLAYER_POSITION] = "PlayerHead"]
           /\ isPlayerColliding' = (destTile = "Obstacle")
           /\ frames' = IF destTile = "Obstacle" THEN 0 ELSE frames
    /\ passed' = passed + (IF tiles[GAME_TILE_ROWS - 2][GAME_PLAYER_POSITION] = "Obstacle"
                           THEN 1 ELSE 0)
    /\ pc' = "Obstacles"
    /\ UNCHANGED <<score, lastObstacleDist, playerYPos, prevStepCount,
                   jumpStepCount, direction, isGameRunning, isJumping,
                   inputPc, arc, pressedInJump, quit, secondRun>>

\* lastObstacleDist++ (line 285) on a 32-bit int: the values the counter can
\* hold afterwards.  Incrementing INT_MAX is signed overflow, which the
\* language leaves undefined: the usual builds wrap to INT_MIN, and a build
\* may as well keep the value or treat the result as any other number.
Incremented(x) ==
    IF x = INT_MAX THEN {-INT_MAX - 1, INT_MAX, 0} ELSE {x + 1}

\* ObstacleSpawnAvailable as it would be with >= in the test of the minimum
\* gap.
ObstacleSpawnAvailable_AtMinGap(dist, draw) ==
    IF dist > MAX_OBSTACLE_GAP
    THEN TRUE
    ELSE dist >= MIN_OBSTACLE_GAP /\ draw < OBSTACLE_CREATION_CHANCE

\* ObstacleSpawnAvailable as it would be if the spawn were forced only at
\* the first value above MAX_OBSTACLE_GAP.
ObstacleSpawnAvailable_ForcedAtEqual(dist, draw) ==
    IF dist = MAX_OBSTACLE_GAP + 1
    THEN TRUE
    ELSE dist > MIN_OBSTACLE_GAP /\ draw < OBSTACLE_CREATION_CHANCE

\* ObstacleSpawnAvailable as it would be without the forced spawn.
ObstacleSpawnAvailable_ChanceOnly(dist, draw) ==
    dist > MIN_OBSTACLE_GAP /\ draw < OBSTACLE_CREATION_CHANCE

\* Lines 263-268, for one value of the random draw.
ObstacleSpawnAvailable(dist, draw) ==
    IF dist > MAX_OBSTACLE_GAP
    THEN TRUE
    ELSE dist > MIN_OBSTACLE_GAP /\ draw < OBSTACLE_CREATION_CHANCE

\* Lines 270-287, then the sleep of line 124.
UpdateObstacles ==
    /\ pc = "Obstacles"
    /\ \E spawn \in { ObstacleSpawnAvailable(lastObstacleDist, draw) :
                          draw \in RandRange(0, 101) } :
         IF spawn
         THEN \E height \in RandRange(MIN_OBSTACLE_HEIGHT, MAX_OBSTACLE_HEIGHT + 1) :
                 /\ tiles' = WithObstacle(tiles, height)
                 /\ lastObstacleDist' = 0
         ELSE /\ lastObstacleDist' \in Incremented(lastObstacleDist)
              /\ UNCHANGED tiles
    /\ pc' = "While"
    /\ UNCHANGED <<score, playerYPos, prevStepCount, jumpStepCount, direction,
                   isPlayerColliding, isGameRunning, isJumping, inputPc, histVars>>

\* StopInputThread as it would be if the thread were not joined.
StopInputThread_NoJoin ==
    /\ pc = "Stop"
    /\ pc' = "Done"
    /\ UNCHANGED <<gameVars, isGameRunning, isJumping, inputPc, histVars>>

\* Lines 127-129: showcursor, then StopInputThread(): inputThread.join()
\* returns once the input thread has left its lambda.
StopInputThread ==
    /\ pc = "Stop"
    /\ inputPc = "Done"
    /\ pc' = "Done"
    /\ UNCHANGED <<gameVars, isGameRunning, isJumping, inputPc, histVars>>

(***************************************************************************)
(* The input thread: the lambda of StartInputThread (lines 162-179).       *)
(***************************************************************************)

\* Line 163: while (isGameRunning).
InputLoopTest ==
    /\ inputPc = "While"
    /\ inputPc' = IF isGameRunning THEN "Key" ELSE "Done"
    /\ UNCHANGED <<gameVars, isGameRunning, isJumping, pc, histVars>>

\* Lines 165-177 with kbhit() false, or with a key the switch ignores.
InputNoKey ==
    /\ inputPc = "Key"
    /\ inputPc' = "While"
    /\ UNCHANGED <<gameVars, isGameRunning, isJumping, pc, histVars>>

\* Lines 170-172: case KEY_SPACE: isJumping = true.
InputSpace ==
    /\ inputPc = "Key"
    /\ isJumping' = TRUE
    /\ pressedInJump' = (pressedInJump \/ isJumping)
    /\ inputPc' = "While"
    /\ UNCHANGED <<gameVars, isGameRunning, pc, frames, arc, passed, quit,
                   secondRun>>

\* Lines 173-175: case KEY_ESCAPE: isGameRunning = false.
InputEscape ==
    /\ inputPc = "Key"
    /\ isGameRunning' = FALSE
    /\ quit' = TRUE
    /\ inputPc' = "While"
    /\ UNCHANGED <<gameVars, isJumping, pc, frames, arc, pressedInJump, passed,
                   secondRun>>

TickThread ==
    \/ RunStart
    \/ LoopTest
    \/ PrintGameState
    \/ CollisionCheck
    \/ UpdateScore
    \/ UpdatePlayerPosition
    \/ ClearJumping
    \/ UpdateTilesAndCheckForCollisions
    \/ UpdateObstacles
    \/ StopInputThread

InputThread ==
    \/ InputLoopTest
    \/ InputNoKey
    \/ InputSpace
    \/ InputEscape

Next == TickThread \/ InputThread

Spec == Init /\ [][Next]_vars

(***************************************************************************)
(* A further call of Run.  The program itself calls Run once (main, line   *)
(* 373), so the guard of line 97 never fires in Spec.  ReentrySpec adds a  *)
(* caller that enters Run while the first call is in its loop.             *)
(***************************************************************************)

\* Run as it would be if the flag were tested after the start-up of lines
\* 100-102: the call started the input thread anew before it failed.
RunWhileRunning_StartFirst ==
    /\ isGameRunning
    /\ inputPc \in {"While", "Key"}
    /\ secondRun' = "Thrown"
    /\ inputPc' = "While"
    /\ isGameRunning' = TRUE
    /\ UNCHANGED <<gameVars, isJumping, pc, frames, arc, pressedInJump,
                   passed, quit>>

\* Lines 97-98 with isGameRunning true: throw "We're already running."
\* Nothing after the throw is executed.
RunWhileRunning ==
    /\ isGameRunning
    /\ secondRun' = "Thrown"
    /\ UNCHANGED <<gameVars, isGameRunning, isJumping, pc, inputPc, frames,
                   arc, pressedInJump, passed, quit>>

ReentryNext == Next \/ RunWhileRunning

ReentrySpec == Init /\ [][ReentryNext]_vars

\* Both threads are scheduled fairly: the tick thread only sleeps for a fixed
\* time, the input thread polls without blocking.
FairSpec == Spec /\ WF_vars(TickThread) /\ WF_vars(InputThread)

(***************************************************************************)
(* One timing of the jump key, for the question whether every obstacle     *)
(* sequence can be cleared: SPACE is handled exactly when an obstacle is   *)
(* PLAYER_JUMP_STEPS columns ahead of the player and the tick's            *)
(* UpdatePlayerPosition has not read the flag yet, and ESC is never        *)
(* pressed.  The code of both threads and the draws of the generator are   *)
(* those of Spec; only the keys and the moment they are handled are chosen.*)
(***************************************************************************)
ObstacleIn(j) ==
    \E i \in 0 .. (GAME_TILE_ROWS - 2) : tiles[i][j] = "Obstacle"

JumpDue ==
    /\ pc \in {"Obstacles", "While", "Print", "Check", "Score", "Player"}
    /\ ObstacleIn(GAME_PLAYER_POSITION + PLAYER_JUMP_STEPS)
    /\ ~isJumping

\* The tick thread, reading the jump flag only after a due key was handled.
TimedTick == (pc = "Player" => ~JumpDue) /\ TickThread

\* The input thread with the key pressed on time and at no other time.
TimedInput ==
    \/ InputLoopTest
    \/ InputNoKey
    \/ JumpDue /\ InputSpace

TimedNext == TimedTick \/ TimedInput

TimedSpec == Init /\ [][TimedNext]_vars

(***************************************************************************)
(* Properties.                                                             *)
(***************************************************************************)

ObstacleHeight(j) ==
    Cardinality({i \in 0 .. (GAME_TILE_ROWS - 2) : tiles[i][j] = "Obstacle"})

\* C2: in no reachable state does a column hold PLAYER_JUMP_HEIGHT or more
\* Obstacle cells above the floor row (every spawned height is at most
\* MAX_OBSTACLE_HEIGHT = PLAYER_JUMP_HEIGHT - 1).
C2_ObstacleBelowJumpHeight ==
    \A j \in Cols : ObstacleHeight(j) <= MAX_OBSTACLE_HEIGHT

\* The vertical offsets of one jump, tick by tick, as C3 gives them.
ExpectedArc == <<1, 2, 3, 4, 5, 4, 3, 2, 1, 0>>

C3_ArcInv ==
    /\ Len(arc) <= Len(ExpectedArc)
    /\ arc = SubSeq(ExpectedArc, 1, Len(arc))
    /\ jumpStepCount > 0 =>
          /\ Len(arc) = jumpStepCount
          /\ playerYPos = arc[Len(arc)]
          /\ isJumping
    /\ jumpStepCount = 0 =>
          /\ playerYPos = 0
          /\ Len(arc) \in {0, Len(ExpectedArc)}

\* C3: a jump that starts from Idle puts the player at the offsets
\* 1,2,3,4,5,4,3,2,1,0 after its ten ticks, whatever keys are handled during
\* the jump; after the tenth tick jumpStepCount is 0 and the tick thread
\* clears the jumping flag.
C3_JumpArc ==
    /\ []C3_ArcInv
    /\ [][(pc = "Player" /\ pc' = "ClearJumping") =>
              (arc' = ExpectedArc /\ jumpStepCount' = 0 /\ playerYPos' = 0)]_vars
    /\ [][(pc = "ClearJumping" /\ pc' # pc) =>
              (~isJumping' /\ jumpStepCount' = 0 /\ arc' = ExpectedArc)]_vars

C3_Witness ==
    /\ pc = "Tiles"
    /\ prevStepCount = PLAYER_JUMP_DISTANCE - 2
    /\ arc = ExpectedArc
    /\ pressedInJump
    /\ ~isJumping

\* The ground-row cell of the player's column, which UpdateScore reads.
GroundCell == tiles[GAME_TILE_ROWS - 2][GAME_PLAYER_POSITION]

\* C4: the score never decreases, one UpdateScore changes it by 0 or 1 (by 1
\* exactly when the ground-row cell of the player's column holds Obstacle),
\* and it counts every obstacle that goes through that cell once: it equals
\* the number of obstacles scrolled out of the cell, plus the one that is in
\* the cell and has been counted but not yet scrolled on.
C4_ScorePerObstacle ==
    /\ [](score = passed + (IF pc \in {"Player", "ClearJumping", "Tiles"}
                               /\ GroundCell = "Obstacle"
                            THEN 1 ELSE 0))
    /\ [][score' \in {score, score + 1}]_vars
    /\ [][score' # score => pc = "Score"]_vars
    /\ [][(pc = "Score" /\ pc' = "Player") =>
              (score' = score + 1 <=> GroundCell = "Obstacle")]_vars

C4_Witness ==
    score >= 2 /\ passed = score /\ pc = "Obstacles"

\* C5: UpdateObstacles spawns whenever the distance counter exceeds
\* MAX_OBSTACLE_GAP, whatever the draw; so once the counter has left its
\* initial value it never exceeds MAX_OBSTACLE_GAP + 1.
C5_ForcedSpawn ==
    /\ [](lastObstacleDist = INT_MAX
          \/ lastObstacleDist \in 0 .. (MAX_OBSTACLE_GAP + 1))
    /\ [][lastObstacleDist # INT_MAX => lastObstacleDist' # INT_MAX]_vars
    /\ [][(pc = "Obstacles" /\ pc' # pc /\ lastObstacleDist > MAX_OBSTACLE_GAP) =>
              /\ lastObstacleDist' = 0
              /\ tiles'[GAME_TILE_ROWS - 2][GAME_TILE_COLS - 1] = "Obstacle"]_vars

C5_Witness ==
    lastObstacleDist = MAX_OBSTACLE_GAP + 1 /\ pc = "Obstacles"

\* The rows of the player's column that hold a Player* tile.
PlayerRows == {i \in Rows : tiles[i][GAME_PLAYER_POSITION] \in PlayerTiles}

\* C6: exactly one cell of the player's column holds a Player* tile, it is
\* PlayerHead, and at every tick boundary it is at row R-2-playerYPos; no
\* other column holds PlayerHead.
C6_OneHead ==
    /\ Cardinality(PlayerRows) = 1
    /\ \A i \in PlayerRows : tiles[i][GAME_PLAYER_POSITION] = "PlayerHead"
    /\ pc \notin {"ClearJumping", "Tiles"} => PlayerRows = {HeadRow(playerYPos)}
    /\ \A i \in Rows : \A j \in Cols :
          tiles[i][j] = "PlayerHead" => j = GAME_PLAYER_POSITION

C6_Witness ==
    /\ pc = "Print"
    /\ playerYPos = PLAYER_JUMP_HEIGHT
    /\ tiles[GAME_TILE_ROWS - 2 - PLAYER_JUMP_HEIGHT][GAME_PLAYER_POSITION] = "PlayerHead"
    /\ tiles[GAME_TILE_ROWS - 1 - PLAYER_JUMP_HEIGHT][GAME_PLAYER_POSITION - 1]
          = "PlayerAscending"

\* C7: every cell of the floor row R-1 holds Wall in every reachable state.
C7_FloorIsWall ==
    \A j \in Cols : tiles[GAME_TILE_ROWS - 1][j] = "Wall"

\* C8: every obstacle sequence the generator can produce can be cleared:
\* with the jump key handled when the obstacle is PLAYER_JUMP_STEPS columns
\* ahead (TimedSpec), the collision flag is never set, whatever heights and
\* gaps the generator draws; and that timing never waits for a key the
\* input thread can no longer deliver.
C8_AllJumpable ==
    /\ ~isPlayerColliding
    /\ (pc = "Player" /\ JumpDue) => (isGameRunning /\ inputPc \in {"While", "Key"})

C8_Witness ==
    /\ pc = "Obstacles"
    /\ playerYPos = PLAYER_JUMP_HEIGHT
    /\ ObstacleHeight(GAME_PLAYER_POSITION) = PLAYER_JUMP_HEIGHT
    /\ score >= 1
    /\ ~isPlayerColliding

\* C9: once ESC has been handled or a collision has been latched, the tick
\* loop ends, the input thread leaves its loop, and Run returns; Run never
\* returns while the input thread is still running.
C9_Shutdown ==
    /\ [](pc = "Done" => inputPc = "Done")
    /\ (quit \/ isPlayerColliding) ~> (pc = "Done" /\ inputPc = "Done")

C9_Witness ==
    pc = "Done" /\ inputPc = "Done" /\ isPlayerColliding /\ ~quit /\ frames = 1

\* C10: SPACE handled while a jump is in progress changes nothing: the flag
\* is already set for the whole jump, the input thread's steps leave the
\* kinematics alone, the tick thread clears the flag when the jump has made
\* its D-1 ticks (the player is then Idle), and afterwards the flag is set
\* again only by a key handled while it was clear.
C10_NoDoubleJump ==
    /\ []((jumpStepCount > 0 \/ pc = "ClearJumping") => isJumping)
    /\ [][pc' = pc =>
              UNCHANGED <<playerYPos, jumpStepCount, prevStepCount, direction, arc>>]_vars
    /\ [][(isJumping /\ inputPc = "Key" /\ inputPc' = "While") =>
              (isJumping' \/ pc' # pc) /\ UNCHANGED gameVars]_vars
    /\ [][(pc = "ClearJumping" /\ pc' # pc) =>
              /\ ~isJumping'
              /\ pc' = "Tiles"
              /\ jumpStepCount' = 0 /\ playerYPos' = 0
              /\ Len(arc') = PLAYER_JUMP_DISTANCE - 1]_vars
    /\ [][(~isJumping /\ isJumping') =>
              (inputPc = "Key" /\ inputPc' = "While" /\ pc' = pc)]_vars

C10_Witness ==
    /\ pc = "Tiles"
    /\ prevStepCount = 0 /\ jumpStepCount = 0 /\ playerYPos = 0
    /\ arc = ExpectedArc
    /\ pressedInJump
    /\ ~isJumping

\* C11: a call of Run made while the running flag is true throws before it
\* starts anything: the step that fails leaves the score, the grid, the
\* player state, the spawn counter, both shared flags and both threads'
\* positions as they were (no second input thread is started).
C11_SecondRunThrows ==
    /\ [](secondRun = "Thrown" => pc # "Run")
    /\ [][secondRun' # secondRun =>
              /\ isGameRunning /\ isGameRunning'
              /\ secondRun' = "Thrown"
              /\ UNCHANGED <<gameVars, isJumping, pc, inputPc>>]_vars

C11_Witness ==
    secondRun = "Thrown" /\ inputPc = "Key" /\ pc = "Tiles" /\ playerYPos > 0

\* C12: on the tick that finds the collision flag set, the loop stops right
\* after the render: from that render on, the score, the player's state, the
\* grid, the spawn counter and the flag itself keep their values, and the
\* tick thread goes from the check straight to the end of Run.
C12_NoMutationAfterImpactRender ==
    /\ [][(isPlayerColliding /\ pc \in {"Print", "Check", "Stop", "Done"}) =>
              /\ UNCHANGED gameVars
              /\ pc' \in {"Print", "Check", "Stop", "Done"}]_vars
    /\ [][(isPlayerColliding /\ pc = "Check" /\ pc' # pc) =>
              (pc' = "Stop" /\ ~isGameRunning')]_vars

C12_Witness ==
    /\ pc = "Stop"
    /\ isPlayerColliding /\ frames = 1 /\ ~quit
    /\ inputPc = "Key"
    /\ jumpStepCount > PLAYER_JUMP_STEPS

\* A step of the tick thread that is one run of UpdateObstacles.
ObstaclesStep == pc = "Obstacles" /\ pc' # pc

\* The run of UpdateObstacles spawned: the cell above the floor in the last
\* column, Empty since the scroll, holds Obstacle afterwards.
SpawnStep ==
    /\ ObstaclesStep
    /\ tiles'[GAME_TILE_ROWS - 2][GAME_TILE_COLS - 1] = "Obstacle"

\* C13: one run of UpdateObstacles either spawns and sets the counter to 0,
\* or leaves the grid alone and adds exactly 1 to the counter.  It spawns
\* whenever the counter exceeds MAX_OBSTACLE_GAP and never while the counter
\* is at most MIN_OBSTACLE_GAP; in between both happen (the draw decides).
\* The counter counts the ticks since the last spawn, so two consecutive
\* spawns are more than MIN_OBSTACLE_GAP ticks apart.
C13_SpawnDecision ==
    /\ [][ObstaclesStep =>
              \/ SpawnStep /\ lastObstacleDist' = 0
              \/ /\ ~SpawnStep
                 /\ tiles' = tiles
                 /\ lastObstacleDist' = lastObstacleDist + 1]_vars
    /\ [][SpawnStep => lastObstacleDist > MIN_OBSTACLE_GAP]_vars
    /\ [][(ObstaclesStep /\ lastObstacleDist > MAX_OBSTACLE_GAP) => SpawnStep]_vars
    /\ [][lastObstacleDist' # lastObstacleDist => ObstaclesStep]_vars
    /\ [](pc = "Obstacles" =>
             \A i \in 0 .. (GAME_TILE_ROWS - 2) : tiles[i][GAME_TILE_COLS - 1] = "Empty")
    /\ [](pc = "Obstacles" =>
             \A draw \in RandRange(0, 101) :
                ObstacleSpawnAvailable(lastObstacleDist, draw)
                   <=> \/ lastObstacleDist > MAX_OBSTACLE_GAP
                       \/ /\ lastObstacleDist > MIN_OBSTACLE_GAP
                          /\ draw < OBSTACLE_CREATION_CHANCE)

\* The counter has been incremented inside the window in which the draw
\* decides, and then a spawn has reset it: an obstacle is in the last column
\* while the score shows that an earlier one has passed.
C13_Witness ==
    /\ pc = "While"
    /\ lastObstacleDist = 0
    /\ ObstacleIn(GAME_TILE_COLS - 1)
    /\ score = 1
    /\ jumpStepCount = 0 /\ playerYPos = 0 /\ ~isJumping

\* C14: when UpdateObstacles spawns an obstacle of drawn height h, the last
\* column afterwards holds Obstacle in exactly the rows R-1-h .. R-2 (the h
\* rows above the floor row) and Empty in every row above them, and no cell
\* of another column is changed by the spawn.
C14_SpawnFootprint ==
    [][SpawnStep =>
          \E h \in RandRange(MIN_OBSTACLE_HEIGHT, MAX_OBSTACLE_HEIGHT + 1) :
             /\ {i \in Rows : tiles'[i][GAME_TILE_COLS - 1] = "Obstacle"}
                   = (GAME_TILE_ROWS - 1 - h) .. (GAME_TILE_ROWS - 2)
             /\ \A i \in 0 .. (GAME_TILE_ROWS - 2 - h) :
                   tiles'[i][GAME_TILE_COLS - 1] = "Empty"
             /\ \A i \in Rows : \A j \in Cols \ {GAME_TILE_COLS - 1} :
                   tiles'[i][j] = tiles[i][j]]_vars

\* One run of UpdateTilesAndCheckForCollisions.
ScrollStep == pc = "Tiles" /\ pc' # pc

\* The tick of the current jump that the scroll belongs to: 0 when the player
\* is idle, else the number of kinematics updates of this jump so far.
JumpTick == IF prevStepCount = 0 /\ jumpStepCount = 0 THEN 0 ELSE Len(arc)

\* playerYPos before this tick's kinematics update.
PrevYPos ==
    IF JumpTick = 0 THEN playerYPos
    ELSE IF JumpTick = 1 THEN 0
    ELSE arc[JumpTick - 1]

\* C15: the scroll writes the trailing tile at column GAME_PLAYER_POSITION-1
\* in the row the head occupied before the scroll, chosen from the step
\* count before this tick's kinematics update: PlayerForward when idle,
\* PlayerAscending when the count is < S, PlayerJumpTop when it is S,
\* PlayerDescending when it is > S.  Over a jump, ticks 1..S write ascending
\* tiles, tick S+1 writes the only PlayerJumpTop, in the apex row, and the
\* later ticks write descending tiles.
C15_TrailingTile ==
    /\ [][ScrollStep =>
            /\ tiles[HeadRow(PrevYPos)][GAME_PLAYER_POSITION] = "PlayerHead"
            /\ JumpTick = 0 => prevStepCount = 0 /\ jumpStepCount = 0
            /\ JumpTick > 0 => prevStepCount = JumpTick - 1
            /\ tiles'[HeadRow(PrevYPos)][GAME_PLAYER_POSITION - 1] =
                  IF JumpTick = 0 THEN "PlayerForward"
                  ELSE IF prevStepCount < PLAYER_JUMP_STEPS THEN "PlayerAscending"
                  ELSE IF prevStepCount = PLAYER_JUMP_STEPS THEN "PlayerJumpTop"
                  ELSE "PlayerDescending"
            /\ tiles'[HeadRow(PrevYPos)][GAME_PLAYER_POSITION - 1] = "PlayerAscending"
                  <=> JumpTick \in 1 .. PLAYER_JUMP_STEPS
            /\ tiles'[HeadRow(PrevYPos)][GAME_PLAYER_POSITION - 1] = "PlayerJumpTop"
                  <=> JumpTick = PLAYER_JUMP_STEPS + 1
            /\ tiles'[HeadRow(PrevYPos)][GAME_PLAYER_POSITION - 1] = "PlayerDescending"
                  <=> JumpTick \in (PLAYER_JUMP_STEPS + 2) .. (PLAYER_JUMP_DISTANCE - 1)
            /\ JumpTick = PLAYER_JUMP_STEPS + 1 => PrevYPos = PLAYER_JUMP_HEIGHT]_vars
    /\ [](\A i \in Rows : \A j \in Cols :
             tiles[i][j] = "PlayerJumpTop" =>
                i = GAME_TILE_ROWS - 2 - PLAYER_JUMP_HEIGHT)

C15_Witness ==
    /\ pc = "Obstacles"
    /\ prevStepCount = PLAYER_JUMP_STEPS
    /\ playerYPos = PLAYER_JUMP_HEIGHT - PLAYER_JUMP_STEP_SIZE
    /\ tiles[GAME_TILE_ROWS - 2 - PLAYER_JUMP_HEIGHT][GAME_PLAYER_POSITION - 1]
          = "PlayerJumpTop"

\* The number of scrolls since the last spawn: the counter, plus the scroll
\* of the current tick while UpdateObstacles has not run yet.
ScrollsSinceSpawn ==
    IF pc = "Obstacles" THEN lastObstacleDist + 1 ELSE lastObstacleDist

\* C16: a scroll moves every Obstacle cell of rows 0..R-2 one column to the
\* left (column 0 is dropped), makes the last column of those rows Empty and
\* leaves the floor row as it is; the collision flag it sets is true iff the
\* cell that the scroll moved into the head's cell held Obstacle.  So the
\* obstacle spawned last is in column C-1-k after k further ticks, and in
\* the player's column after exactly C-1-GAME_PLAYER_POSITION ticks (where
\* the head replaces its ground cell if the player is on the ground).
C16_ScrollAndCollide ==
    /\ [][ScrollStep =>
            /\ \A i \in 0 .. (GAME_TILE_ROWS - 2) : \A j \in 0 .. (GAME_TILE_COLS - 2) :
                  (i # HeadRow(playerYPos) \/ j # GAME_PLAYER_POSITION) =>
                     (tiles'[i][j] = "Obstacle" <=> tiles[i][j + 1] = "Obstacle")
            /\ \A i \in 0 .. (GAME_TILE_ROWS - 2) : tiles'[i][GAME_TILE_COLS - 1] = "Empty"
            /\ tiles'[GAME_TILE_ROWS - 1] = tiles[GAME_TILE_ROWS - 1]
            /\ tiles'[HeadRow(playerYPos)][GAME_PLAYER_POSITION] = "PlayerHead"
            /\ isPlayerColliding' <=>
                  tiles[HeadRow(playerYPos)][GAME_PLAYER_POSITION + 1] = "Obstacle"]_vars
    /\ [][tiles' # tiles => (ScrollStep \/ SpawnStep)]_vars
    /\ [](IF lastObstacleDist = INT_MAX
          THEN \A j \in Cols : ~ObstacleIn(j)
          ELSE LET k == ScrollsSinceSpawn
               IN  /\ k \in 0 .. (MAX_OBSTACLE_GAP + 2)
                   /\ k <= GAME_TILE_COLS - 1 =>
                         \/ tiles[GAME_TILE_ROWS - 2][GAME_TILE_COLS - 1 - k] = "Obstacle"
                         \/ /\ k = GAME_TILE_COLS - 1 - GAME_PLAYER_POSITION
                            /\ playerYPos = 0
                            /\ isPlayerColliding
                   /\ MIN_OBSTACLE_GAP >= GAME_TILE_COLS - 1 =>
                         \A j \in Cols : ObstacleIn(j) => j = GAME_TILE_COLS - 1 - k)

C16_Witness ==
    /\ pc = "Obstacles"
    /\ isPlayerColliding
    /\ playerYPos > 0
    /\ lastObstacleDist + 1 = GAME_TILE_COLS - 1 - GAME_PLAYER_POSITION
    /\ tiles[GAME_TILE_ROWS - 2][GAME_PLAYER_POSITION] = "Obstacle"

\* The place of a position of the tick thread within Run: the statements of
\* one tick in their order, then the loop test, then the end of Run.
TickRank(p) ==
    CASE p = "Run" -> 0
      [] p = "Print" -> 1
      [] p = "Check" -> 2
      [] p = "Score" -> 3
      [] p = "Player" -> 4
      [] p = "ClearJumping" -> 5
      [] p = "Tiles" -> 6
      [] p = "Obstacles" -> 7
      [] p = "While" -> 8
      [] p = "Stop" -> 9
      [] p = "Done" -> 10

\* The running flag is false only before Run, after a quit or after the loop
\* has found the collision flag set; once false after Run started it stays
\* false, and the loop starts a tick only while it is true.
StoppedIsTerminal ==
    /\ []((~isGameRunning /\ pc # "Run") => (quit \/ isPlayerColliding))
    /\ [][(~isGameRunning /\ pc # "Run") => ~isGameRunning']_vars
    /\ [][(pc = "While" /\ pc' = "Print") => isGameRunning]_vars

\* C17 (as stated): Stopped is terminal, and after a quit request the tick
\* loop performs at most the remainder of the tick in progress, with no
\* further render.
C17_NoRenderAfterQuit ==
    /\ StoppedIsTerminal
    /\ [][quit => TickRank(pc') >= TickRank(pc)]_vars
    /\ [][quit => ~(pc = "Print" /\ pc' = "Check")]_vars

\* C17 (amended): Stopped is terminal, and after a quit request the tick
\* thread only moves forward through the tick in progress, to the loop test
\* and out of the loop.  It renders after the quit only if the quit came
\* between the loop test that started this tick and its PrintGameState:
\* once the thread is elsewhere it never reaches PrintGameState again.
C17_StoppedTerminal ==
    /\ StoppedIsTerminal
    /\ [](quit => ~isGameRunning)
    /\ [][quit => TickRank(pc') >= TickRank(pc)]_vars
    /\ [][(quit /\ pc # "Print") => pc' # "Print"]_vars

C17_Witness ==
    /\ quit /\ ~isGameRunning /\ ~isPlayerColliding
    /\ pc = "Done" /\ inputPc = "Done"
    /\ score = 1 /\ playerYPos > 0

\* C18: an obstacle the player collides with is never scored.  From the
\* scroll that latches the collision on, UpdateScore does not run and the
\* score keeps its value, which is the number of obstacles that have left
\* the ground cell of the player's column, each of them while the player
\* was in the air above it; the obstacle hit is not among them.
C18_CollidedNotScored ==
    /\ [](isPlayerColliding =>
             /\ score = passed
             /\ pc \notin {"Score", "Player", "ClearJumping", "Tiles"})
    /\ [][(isPlayerColliding \/ isPlayerColliding') => score' = score]_vars
    /\ [](pc \in {"Obstacles", "While", "Print", "Check", "Stop", "Done"} =>
             score = passed)
    /\ []((GroundCell = "Obstacle" /\ pc \notin {"Tiles", "ClearJumping"}) =>
             playerYPos > 0)
    /\ [][score' # score => (pc = "Score" /\ ~isPlayerColliding)]_vars

C18_Witness ==
    /\ pc = "Done"
    /\ isPlayerColliding /\ frames = 1 /\ ~quit
    /\ score = 1 /\ passed = 1
    /\ GroundCell = "Obstacle"

\* C19: the distance counter starts at INT_MAX and keeps that value until
\* the first UpdateObstacles, which always spawns and sets it to 0; the
\* counter is never incremented at INT_MAX, and after every UpdateObstacles,
\* the first one included, it lies in 0 .. MAX_OBSTACLE_GAP + 1.
C19_SentinelStart ==
    /\ [](pc = "Run" => lastObstacleDist = INT_MAX)
    /\ [](lastObstacleDist = INT_MAX =>
             /\ score = 0 /\ passed = 0
             /\ \A j \in Cols : ~ObstacleIn(j) /\ tiles[GAME_TILE_ROWS - 1][j] = "Wall")
    /\ [][(ObstaclesStep /\ lastObstacleDist = INT_MAX) =>
              (SpawnStep /\ lastObstacleDist' = 0)]_vars
    /\ [][ObstaclesStep => lastObstacleDist' \in 0 .. (MAX_OBSTACLE_GAP + 1)]_vars
    /\ [][lastObstacleDist' # lastObstacleDist =>
              /\ ObstaclesStep
              /\ \/ lastObstacleDist' = 0
                 \/ /\ lastObstacleDist < INT_MAX
                    /\ lastObstacleDist' = lastObstacleDist + 1]_vars

C19_Witness ==
    /\ pc = "While" /\ isGameRunning
    /\ lastObstacleDist = 0
    /\ score = 0 /\ passed = 0
    /\ ObstacleIn(GAME_TILE_COLS - 1)
    /\ tiles[GAME_TILE_ROWS - 2][GAME_PLAYER_POSITION] = "PlayerHead"

\* C20: every grid access stays inside the R x C grid: playerYPos stays in
\* 0 .. PLAYER_JUMP_HEIGHT, so the head row R-2-playerYPos lies in 0 .. R-2;
\* the columns the player's cells use lie in the grid; and every row index
\* a spawn writes, for every height the draw can give, lies in 0 .. R-1, so
\* that a spawn leaves Obstacle in each of the rows it writes.
C20_InsideGrid ==
    /\ [](/\ playerYPos \in 0 .. PLAYER_JUMP_HEIGHT
          /\ HeadRow(playerYPos) \in 0 .. (GAME_TILE_ROWS - 2)
          /\ {GAME_PLAYER_POSITION - 1, GAME_PLAYER_POSITION,
               GAME_PLAYER_POSITION + 1} \subseteq Cols
          /\ \A h \in RandRange(MIN_OBSTACLE_HEIGHT, MAX_OBSTACLE_HEIGHT + 1) :
                SpawnRows(h) \subseteq Rows)
    /\ [][SpawnStep =>
            \E h \in RandRange(MIN_OBSTACLE_HEIGHT, MAX_OBSTACLE_HEIGHT + 1) :
               {i \in Rows : tiles'[i][GAME_TILE_COLS - 1] = "Obstacle"}
                  = SpawnRows(h)]_vars
    /\ [][ScrollStep =>
            tiles'[HeadRow(playerYPos)][GAME_PLAYER_POSITION] = "PlayerHead"]_vars

C20_Witness ==
    /\ pc = "While"
    /\ playerYPos = PLAYER_JUMP_HEIGHT
    /\ HeadRow(playerYPos) = GAME_TILE_ROWS - 2 - PLAYER_JUMP_HEIGHT
    /\ ObstacleHeight(GAME_TILE_COLS - 1) = MAX_OBSTACLE_HEIGHT + 1

\* The draws for which UpdateObstacles spawns at the current counter value.
SpawningDraws ==
    {draw \in RandRange(0, 101) : ObstacleSpawnAvailable(lastObstacleDist, draw)}

\* C21: when UpdateObstacles decides with the counter above MIN_OBSTACLE_GAP
\* and not above MAX_OBSTACLE_GAP, the draw it compares ranges over the 100
\* values 0 .. 99, and exactly the draws 0 .. 24 lead to a spawn.
C21_DrawBelowHundred ==
    (/\ pc = "Obstacles"
     /\ lastObstacleDist > MIN_OBSTACLE_GAP
     /\ lastObstacleDist <= MAX_OBSTACLE_GAP) =>
        /\ RandRange(0, 101) = 0 .. 99
        /\ Cardinality(RandRange(0, 101)) = 100
        /\ SpawningDraws = 0 .. (OBSTACLE_CREATION_CHANCE - 1)

=============================================================================
